---- MODULE Spec2Model ----
(***************************************************************************)
(* Pokedex backend (src/src/server.ts): the per-pennkey Box store kept in  *)
(* Redis and the aggregation of Pokemon records from the upstream API.     *)
(*                                                                         *)
(* A string is a sequence of tokens.  The tokens ":" and "*" are the       *)
(* characters the key scheme and Redis' glob patterns give a meaning to;   *)
(* "pokedex" stands for the seven letters of the collection segment; every *)
(* other token is a run of ordinary characters none of which occurs in     *)
(* "pokedex", so token-wise matching is character-wise matching.           *)
(*                                                                         *)
(* A handler is cut at its awaits: node-redis sends the commands of one    *)
(* connection in the order they are issued and Redis runs them in that     *)
(* order, so a command takes effect in the step that issues it and the     *)
(* code after the await is the handler's next step.                        *)
(***************************************************************************)
EXTENDS Integers, Sequences, FiniteSets, TLC

VARIABLES
    store,      \* Redis: key -> JSON text
    created,    \* created[n]: the pennkey whose request drew the n-th createId()
    inflight,   \* per slot: the request being handled, or Idle
    resp,       \* the response the latest step sent, NoResp when it sent none
    route,      \* the /pokemon request being handled, or Idle
    calls       \* the getPokemonDetails calls of that request, in call order

(***************************** bounds ***************************************)
MaxIds == 2
MaxInFlight == 2
\* the longest upstream move list of GET /pokemon/:name
MaxMoves == 12
\* the longest upstream move list and the largest limit of GET /pokemon/
MaxListMoves == 1
\* the longest upstream move list where every request is bound to settle
MaxFairMoves == 4
MaxLimit == 2

(***************************** values ***************************************)
Str(s) == [t |-> "string", v |-> s]
Num(n) == [t |-> "number", v |-> n]

\* A JS object: its own properties in insertion order, <<name, value>>.
Has(o, n) == \E i \in 1..Len(o) : o[i][1] = n
Get(o, n) == o[CHOOSE i \in 1..Len(o) : o[i][1] = n][2]
Put(o, n, v) ==
    IF Has(o, n)
    THEN [i \in 1..Len(o) |-> IF o[i][1] = n THEN <<n, v>> ELSE o[i]]
    ELSE Append(o, <<n, v>>)

RECURSIVE Spread(_, _)
\* { ...a, ...b }
Spread(a, b) ==
    IF Len(b) = 0 THEN a
    ELSE Spread(Put(a, b[1][1], b[1][2]), Tail(b))

(***************************** JSON *****************************************)
LBrace == [t |-> "punct", v |-> "{"]
RBrace == [t |-> "punct", v |-> "}"]
Member(n) == [t |-> "key", v |-> n]

RECURSIVE Members(_)
Members(o) ==
    IF Len(o) = 0 THEN <<>>
    ELSE <<Member(o[1][1]), o[1][2]>> \o Members(Tail(o))

\* JSON.stringify of an object whose values are strings and numbers
JSONstringify(o) == <<LBrace>> \o Members(o) \o <<RBrace>>

RECURSIVE ParseMembers(_, _)
ParseMembers(toks, acc) ==
    IF Len(toks) < 2 THEN acc
    ELSE ParseMembers(SubSeq(toks, 3, Len(toks)), Put(acc, toks[1].v, toks[2]))

\* JSON.parse of such a text
JSONparse(text) == ParseMembers(SubSeq(text, 2, Len(text) - 1), <<>>)

(***************************** zod schemas **********************************)
\* z.string().datetime(): the strings of the model that are ISO-8601 datetimes
DatetimeStrings == { <<"2024-01-01T00:00:00Z">> }

IsString(v) == v.t = "string"
IsInt(v) == v.t = "number"

\* mutant: level without its max(100)
FieldOKNoMax(n, v) ==
    CASE n = "createdAt" -> IsString(v) /\ v.v \in DatetimeStrings
      [] n = "level"     -> IsInt(v) /\ v.v >= 1
      [] n = "location"  -> IsString(v) /\ Len(v.v) >= 1
      [] n = "notes"     -> IsString(v)
      [] n = "pokemonId" -> IsInt(v) /\ v.v > 0
      [] n = "id"        -> IsString(v)
      [] OTHER           -> FALSE

FieldOK(n, v) ==
    CASE n = "createdAt" -> IsString(v) /\ v.v \in DatetimeStrings
      [] n = "level"     -> IsInt(v) /\ v.v >= 1 /\ v.v <= 100
      [] n = "location"  -> IsString(v) /\ Len(v.v) >= 1
      [] n = "notes"     -> IsString(v)
      [] n = "pokemonId" -> IsInt(v) /\ v.v > 0
      [] n = "id"        -> IsString(v)
      [] OTHER           -> FALSE

InsertShape == <<"createdAt", "level", "location", "notes", "pokemonId">>
InsertRequired == {"createdAt", "level", "location", "pokemonId"}
BoxEntryShape == Append(InsertShape, "id")
BoxEntryRequired == InsertRequired \cup {"id"}

RECURSIVE ZodIssues(_, _, _)
\* the paths of the issues of z.object(shape).parse(o), in shape order
ZodIssues(shape, required, o) ==
    IF Len(shape) = 0 THEN <<>>
    ELSE LET n == Head(shape)
             bad == IF Has(o, n) THEN ~FieldOK(n, Get(o, n)) ELSE n \in required
         IN (IF bad THEN <<n>> ELSE <<>>) \o ZodIssues(Tail(shape), required, o)

RECURSIVE ZodOutput(_, _)
\* the parsed object: the shape's keys that the input has, unknown keys stripped
ZodOutput(shape, o) ==
    IF Len(shape) = 0 THEN <<>>
    ELSE (IF Has(o, Head(shape)) THEN << <<Head(shape), Get(o, Head(shape))>> >> ELSE <<>>)
         \o ZodOutput(Tail(shape), o)

ZodParse(shape, required, o) ==
    LET issues == ZodIssues(shape, required, o)
    IN [ok |-> Len(issues) = 0, errors |-> issues,
        data |-> IF Len(issues) = 0 THEN ZodOutput(shape, o) ELSE <<>>]

\* mutant: a schema that leaves notes out, so that zod strips it
InsertBoxEntrySchemaNoNotes(o) ==
    ZodParse(<<"createdAt", "level", "location", "pokemonId">>, InsertRequired, o)
InsertBoxEntrySchema(o) == ZodParse(InsertShape, InsertRequired, o)
\* mutant: the update schema without its optional()/partial()
UpdateBoxEntrySchemaRequired(o) == ZodParse(InsertShape, InsertRequired, o)
\* mutant: an update schema that knows id, so that zod keeps it
UpdateBoxEntrySchemaWithId(o) == ZodParse(BoxEntryShape, {}, o)
UpdateBoxEntrySchema(o) == ZodParse(InsertShape, {}, o)
BoxEntrySchema(o) == ZodParse(BoxEntryShape, BoxEntryRequired, o)

(***************************** key space ************************************)
BoxKey(pennkey, id) == pennkey \o <<":", "pokedex", ":">> \o id
BoxPattern(pennkey) == pennkey \o <<":", "pokedex", ":", "*">>

RECURSIVE GlobMatch(_, _)
\* Redis KEYS pattern matching: "*" matches any run of characters
GlobMatch(p, s) ==
    IF Len(p) = 0 THEN Len(s) = 0
    ELSE IF Head(p) = "*"
         THEN GlobMatch(Tail(p), s) \/ (Len(s) > 0 /\ GlobMatch(p, Tail(s)))
         ELSE Len(s) > 0 /\ Head(s) = Head(p) /\ GlobMatch(Tail(p), Tail(s))

RECURSIVE SplitFrom(_, _, _)
SplitFrom(s, cur, acc) ==
    IF Len(s) = 0 THEN Append(acc, cur)
    ELSE IF Head(s) = ":"
         THEN SplitFrom(Tail(s), <<>>, Append(acc, cur))
         ELSE SplitFrom(Tail(s), Append(cur, Head(s)), acc)

\* key.split(':')
Split(s) == SplitFrom(s, <<>>, <<>>)

\* key.split(':')[2]; an undefined element is sent as null
IdOfKey(key) == IF Len(Split(key)) >= 3 THEN Split(key)[3] ELSE <<"null">>

(***************************** Redis ****************************************)
EmptyStore == [k \in {} |-> <<>>]
RedisGet(st, k) ==
    IF k \in DOMAIN st THEN [found |-> TRUE, text |-> st[k]]
    ELSE [found |-> FALSE, text |-> <<>>]
RedisSet(st, k, text) == [x \in (DOMAIN st) \cup {k} |-> IF x = k THEN text ELSE st[x]]
RedisExists(st, k) == k \in DOMAIN st
RedisDel(st, ks) == [x \in (DOMAIN st) \ ks |-> st[x]]
RedisKeys(st, pattern) == { k \in DOMAIN st : GlobMatch(pattern, k) }

Range(q) == { q[i] : i \in 1..Len(q) }
\* the orders in which Redis may enumerate a set of keys
Orders(S) == { q \in [1..Cardinality(S) -> S] : Range(q) = S }

(***************************** inputs ***************************************)
\* createId(): the n-th identifier drawn; identifiers never repeat
NewId(n) == [j \in 1..n |-> "m"]

\* the pennkeys POST /token signs: any value of the request body
PennKeys == { <<"a">>, <<"*">>, <<"a", ":", "pokedex", ":", "b">> }
\* the pennkeys that create entries
Creators == { <<"a">>, <<"a", ":", "pokedex", ":", "b">> }
IdPool == { NewId(n) : n \in 1..MaxIds }
\* the <<pennkey, :id>> pairs of the requests on one entry: every pennkey with
\* every identifier createId() draws, and one hand-written id
Targets == (PennKeys \X IdPool) \cup { << <<"a">>, <<"b", ":", "pokedex", ":">> \o NewId(1) >> }

Field(n, v) == << <<n, v>> >>
InsertBody(level) ==
    Field("createdAt", Str(<<"2024-01-01T00:00:00Z">>)) \o Field("level", level)
    \o Field("location", Str(<<"home">>)) \o Field("pokemonId", Num(25))

InsertBodies ==
    { InsertBody(Num(1)),
      InsertBody(Num(100)) \o Field("notes", Str(<<"n">>)),
      InsertBody(Num(101)),
      InsertBody(Str(<<"5">>)),
      Field("createdAt", Str(<<"today">>)) \o Field("level", Num(1)) \o Field("pokemonId", Num(25)),
      InsertBody(Num(1)) \o Field("nickname", Str(<<"n">>)) }

UpdateBodies ==
    { <<>>,
      Field("notes", Str(<<"k">>)),
      Field("level", Num(101)),
      Field("level", Num(0)),
      Field("location", Str(<<>>)),
      Field("pokemonId", Num(0)),
      Field("id", Str(<<"x">>)) }

(***************************** requests *************************************)
Slots == 1..MaxInFlight
Idle == [op |-> "idle"]
NoResp == [op |-> "none"]

Busy == { s \in Slots : inflight[s].op # "idle" }
\* a request is taken into the lowest free slot while fewer than limit run
Free(s, limit) ==
    /\ inflight[s].op = "idle"
    /\ \A t \in 1..(s - 1) : inflight[t].op # "idle"
    /\ Cardinality(Busy) < limit

Request(op, pennkey, id, body, pc) ==
    [op |-> op, pennkey |-> pennkey, id |-> id, body |-> body, pc |-> pc,
     cmds |-> <<>>, keys |-> <<>>,
     data |-> [found |-> FALSE, text |-> <<>>], entry |-> <<>>]

\* res.status(status).json({ code, errors }) / .json(entry) / .json(ids)
Reply(of, status, code, entry, ids, errors) ==
    [op |-> "reply", of |-> of, status |-> status, code |-> code,
     entry |-> entry, ids |-> ids, errors |-> errors]

Start(s, r) == /\ inflight' = [inflight EXCEPT ![s] = r]
               /\ resp' = NoResp
               /\ UNCHANGED <<route, calls>>
Continue(s, r) == /\ inflight' = [inflight EXCEPT ![s] = r]
                  /\ resp' = NoResp
                  /\ UNCHANGED <<route, calls>>
Finish(s, reply) == /\ inflight' = [inflight EXCEPT ![s] = Idle]
                    /\ resp' = reply
                    /\ UNCHANGED <<route, calls>>

Init ==
    /\ store = EmptyStore
    /\ created = <<>>
    /\ inflight = [s \in Slots |-> Idle]
    /\ resp = NoResp
    /\ route = Idle
    /\ calls = <<>>

(***************************** authenticate *********************************)
\* The Authorization header split at ' ': words and tokens.  No header, or an
\* empty one, is <<>>.
Word(w) == [t |-> "word", v |-> w]
\* a token signed with key for pennkey, expired or not
Jwt(pennkey, key, expired) == [t |-> "jwt", pennkey |-> pennkey, key |-> key, expired |-> expired]
JWT_SECRET == "JWT_TOKEN_SECRET"

\* jwt.verify(token, JWT_SECRET): the payload, or a throw
JwtVerify(token) ==
    IF token.t = "jwt" /\ token.key = JWT_SECRET /\ ~token.expired
    THEN [ok |-> TRUE, pennkey |-> token.pennkey]
    ELSE [ok |-> FALSE, pennkey |-> <<>>]

\* mutant: the scheme word is not compared
authenticateAnyScheme(parts) ==
    IF Len(parts) = 0 \/ Len(parts) # 2 \/ ~JwtVerify(parts[2]).ok
    THEN [next |-> FALSE, status |-> 401, code |-> "UNAUTHORIZED", pennkey |-> <<>>]
    ELSE [next |-> TRUE, status |-> 0, code |-> "", pennkey |-> JwtVerify(parts[2]).pennkey]

authenticate(parts) ==
    IF Len(parts) = 0
    THEN [next |-> FALSE, status |-> 401, code |-> "UNAUTHORIZED", pennkey |-> <<>>]
    ELSE IF Len(parts) # 2 \/ parts[1] # Word("Bearer")
    THEN [next |-> FALSE, status |-> 401, code |-> "UNAUTHORIZED", pennkey |-> <<>>]
    ELSE IF ~JwtVerify(parts[2]).ok
    THEN [next |-> FALSE, status |-> 401, code |-> "UNAUTHORIZED", pennkey |-> <<>>]
    ELSE [next |-> TRUE, status |-> 0, code |-> "", pennkey |-> JwtVerify(parts[2]).pennkey]

\* the Authorization headers of the requests
Headers ==
    { <<>>,
      <<Word("Bearer")>>,
      <<Word("Basic"), Jwt(<<"z">>, JWT_SECRET, FALSE)>>,
      <<Word("bearer"), Jwt(<<"z">>, JWT_SECRET, FALSE)>>,
      <<Word("Bearer"), Jwt(<<"z">>, JWT_SECRET, FALSE), Word("x")>>,
      <<Word("Bearer"), Word("x")>>,
      <<Word("Bearer"), Jwt(<<"z">>, "other", FALSE)>>,
      <<Word("Bearer"), Jwt(<<"z">>, JWT_SECRET, TRUE)>> }
    \cup { <<Word("Bearer"), Jwt(p, JWT_SECRET, FALSE)>> : p \in Creators }

BoxOps == {"list", "create", "get", "update", "delete", "clear"}

\* a /box request whose header authenticate turns down: the route's handler
\* is not called
Unauthorized(op, header) ==
    /\ ~authenticate(header).next
    /\ resp' = Reply(op, authenticate(header).status, authenticate(header).code,
                     <<>>, <<>>, <<>>)
    /\ UNCHANGED <<store, created, inflight, route, calls>>

(***************************** GET /box/ ************************************)
ListIds(keys) == [i \in 1..Len(keys) |-> IdOfKey(keys[i])]

ListBox(limit, pennkey) ==
    \E s \in Slots, ks \in Orders(RedisKeys(store, BoxPattern(pennkey))) :
        /\ Free(s, limit)
        /\ Start(s, [Request("list", pennkey, <<>>, <<>>, "keys")
                        EXCEPT !.keys = ks, !.cmds = <<"KEYS">>])
        /\ UNCHANGED <<store, created>>

ListBoxDone(s) ==
    /\ inflight[s].op = "list"
    /\ Finish(s, Reply("list", 200, "", <<>>, ListIds(inflight[s].keys), <<>>))
    /\ UNCHANGED <<store, created>>

(***************************** POST /box/ ***********************************)
\* const boxEntry = { id, ...validatedData }
NewEntry(id, validatedData) == Spread(Field("id", Str(id)), validatedData)

CreateBox(limit, pennkey, body) ==
    \E s \in Slots :
        LET parsed == InsertBoxEntrySchema(body)
            r == Request("create", pennkey, <<>>, body, "set")
            id == NewId(Len(created) + 1)
            boxEntry == NewEntry(id, parsed.data)
        IN /\ Free(s, limit)
           /\ IF ~parsed.ok
              THEN /\ UNCHANGED <<inflight, route, calls>>
                   /\ resp' = Reply("create", 400, "BAD_REQUEST", <<>>, <<>>, parsed.errors)
                   /\ UNCHANGED <<store, created>>
              ELSE /\ Len(created) < MaxIds
                   /\ created' = Append(created, pennkey)
                   /\ store' = RedisSet(store, BoxKey(pennkey, id), JSONstringify(boxEntry))
                   /\ Start(s, [r EXCEPT !.entry = boxEntry, !.cmds = <<"SET">>])

CreateBoxDone(s) ==
    /\ inflight[s].op = "create"
    /\ Finish(s, Reply("create", 201, "", inflight[s].entry, <<>>, <<>>))
    /\ UNCHANGED <<store, created>>

(***************************** GET /box/:id *********************************)
GetOutcome(data) ==
    IF ~data.found
    THEN [status |-> 404, code |-> "NOT_FOUND", entry |-> <<>>]
    ELSE [status |-> 200, code |-> "", entry |-> JSONparse(data.text)]

GetBox(limit, pennkey, id) ==
    \E s \in Slots :
        /\ Free(s, limit)
        /\ Start(s, [Request("get", pennkey, id, <<>>, "get")
                        EXCEPT !.data = RedisGet(store, BoxKey(pennkey, id)),
                               !.cmds = <<"GET">>])
        /\ UNCHANGED <<store, created>>

GetBoxDone(s) ==
    /\ inflight[s].op = "get"
    /\ LET out == GetOutcome(inflight[s].data)
       IN Finish(s, Reply("get", out.status, out.code, out.entry, <<>>, <<>>))
    /\ UNCHANGED <<store, created>>

(***************************** PUT /box/:id *********************************)
\* mutant: the body is merged and stored without either parse
UpdateOutcomeUnchecked(data, body) ==
    IF ~data.found
    THEN [status |-> 404, code |-> "NOT_FOUND", errors |-> <<>>, entry |-> <<>>]
    ELSE [status |-> 200, code |-> "", errors |-> <<>>,
          entry |-> Spread(JSONparse(data.text), body)]

\* mutant: the body is parsed before the key is looked at
UpdateOutcomeParseFirst(data, body) ==
    IF ~UpdateBoxEntrySchema(body).ok
    THEN [status |-> 400, code |-> "BAD_REQUEST",
          errors |-> UpdateBoxEntrySchema(body).errors, entry |-> <<>>]
    ELSE IF ~data.found
    THEN [status |-> 404, code |-> "NOT_FOUND", errors |-> <<>>, entry |-> <<>>]
    ELSE [status |-> 200, code |-> "", errors |-> <<>>,
          entry |-> Spread(JSONparse(data.text), UpdateBoxEntrySchema(body).data)]

UpdateOutcome(data, body) ==
    IF ~data.found
    THEN [status |-> 404, code |-> "NOT_FOUND", errors |-> <<>>, entry |-> <<>>]
    ELSE LET existingEntry == JSONparse(data.text)
             updateData == UpdateBoxEntrySchema(body)
             updatedEntry == Spread(existingEntry, updateData.data)
             merged == BoxEntrySchema(updatedEntry)
         IN IF ~updateData.ok
            THEN [status |-> 400, code |-> "BAD_REQUEST",
                  errors |-> updateData.errors, entry |-> <<>>]
            ELSE IF ~merged.ok
            THEN [status |-> 400, code |-> "BAD_REQUEST",
                  errors |-> merged.errors, entry |-> <<>>]
            ELSE [status |-> 200, code |-> "", errors |-> <<>>, entry |-> updatedEntry]

UpdateBox(limit, pennkey, id, body) ==
    \E s \in Slots :
        /\ Free(s, limit)
        /\ Start(s, [Request("update", pennkey, id, body, "get")
                        EXCEPT !.data = RedisGet(store, BoxKey(pennkey, id)),
                               !.cmds = <<"GET">>])
        /\ UNCHANGED <<store, created>>

\* mutant: the payload is merged into the record stored at the time of the write
UpdateBoxSetOnCurrent(s) ==
    /\ inflight[s].op = "update"
    /\ inflight[s].pc = "get"
    /\ LET r == inflight[s]
           out == UpdateOutcome(r.data, r.body)
           now == UpdateOutcome(RedisGet(store, BoxKey(r.pennkey, r.id)), r.body)
       IN IF out.status # 200 \/ now.status # 200
          THEN /\ Finish(s, Reply("update", out.status, out.code, <<>>, <<>>, out.errors))
               /\ store' = store
          ELSE /\ store' = RedisSet(store, BoxKey(r.pennkey, r.id), JSONstringify(now.entry))
               /\ Continue(s, [r EXCEPT !.pc = "set", !.entry = out.entry,
                                        !.cmds = Append(@, "SET")])
    /\ UNCHANGED created

UpdateBoxSet(s) ==
    /\ inflight[s].op = "update"
    /\ inflight[s].pc = "get"
    /\ LET r == inflight[s]
           out == UpdateOutcome(r.data, r.body)
       IN IF out.status # 200
          THEN /\ Finish(s, Reply("update", out.status, out.code, <<>>, <<>>, out.errors))
               /\ store' = store
          ELSE /\ store' = RedisSet(store, BoxKey(r.pennkey, r.id), JSONstringify(out.entry))
               /\ Continue(s, [r EXCEPT !.pc = "set", !.entry = out.entry,
                                        !.cmds = Append(@, "SET")])
    /\ UNCHANGED created

UpdateBoxDone(s) ==
    /\ inflight[s].op = "update"
    /\ inflight[s].pc = "set"
    /\ Finish(s, Reply("update", 200, "", inflight[s].entry, <<>>, <<>>))
    /\ UNCHANGED <<store, created>>

(***************************** DELETE /box/:id ******************************)
DeleteBox(limit, pennkey, id) ==
    \E s \in Slots :
        /\ Free(s, limit)
        /\ Start(s, [Request("delete", pennkey, id, <<>>, "exists")
                        EXCEPT !.data = [found |-> RedisExists(store, BoxKey(pennkey, id)),
                                         text |-> <<>>],
                               !.cmds = <<"EXISTS">>])
        /\ UNCHANGED <<store, created>>

\* mutant: 204 is answered without the del
DeleteBoxDelSkipped(s) ==
    /\ inflight[s].op = "delete"
    /\ inflight[s].pc = "exists"
    /\ LET r == inflight[s]
       IN IF ~r.data.found
          THEN Finish(s, Reply("delete", 404, "NOT_FOUND", <<>>, <<>>, <<>>))
          ELSE Continue(s, [r EXCEPT !.pc = "del"])
    /\ UNCHANGED <<store, created>>

DeleteBoxDel(s) ==
    /\ inflight[s].op = "delete"
    /\ inflight[s].pc = "exists"
    /\ LET r == inflight[s]
       IN IF ~r.data.found
          THEN /\ Finish(s, Reply("delete", 404, "NOT_FOUND", <<>>, <<>>, <<>>))
               /\ store' = store
          ELSE /\ store' = RedisDel(store, {BoxKey(r.pennkey, r.id)})
               /\ Continue(s, [r EXCEPT !.pc = "del", !.cmds = Append(@, "DEL")])
    /\ UNCHANGED created

DeleteBoxDone(s) ==
    /\ inflight[s].op = "delete"
    /\ inflight[s].pc = "del"
    /\ Finish(s, Reply("delete", 204, "", <<>>, <<>>, <<>>))
    /\ UNCHANGED <<store, created>>

(***************************** DELETE /box/ *********************************)
ClearBox(limit, pennkey) ==
    \E s \in Slots, ks \in Orders(RedisKeys(store, BoxPattern(pennkey))) :
        /\ Free(s, limit)
        /\ Start(s, [Request("clear", pennkey, <<>>, <<>>, "keys")
                        EXCEPT !.keys = ks, !.cmds = <<"KEYS">>])
        /\ UNCHANGED <<store, created>>

\* mutant: del(keys[0]) instead of del(keys)
ClearBoxDelFirst(s) ==
    /\ inflight[s].op = "clear"
    /\ inflight[s].pc = "keys"
    /\ LET r == inflight[s]
       IN IF Len(r.keys) > 0
          THEN /\ store' = RedisDel(store, {r.keys[1]})
               /\ Continue(s, [r EXCEPT !.pc = "del", !.cmds = Append(@, "DEL")])
          ELSE /\ Finish(s, Reply("clear", 204, "", <<>>, <<>>, <<>>))
               /\ store' = store
    /\ UNCHANGED created

ClearBoxDel(s) ==
    /\ inflight[s].op = "clear"
    /\ inflight[s].pc = "keys"
    /\ LET r == inflight[s]
       IN IF Len(r.keys) > 0
          THEN /\ store' = RedisDel(store, Range(r.keys))
               /\ Continue(s, [r EXCEPT !.pc = "del", !.cmds = Append(@, "DEL")])
          ELSE /\ Finish(s, Reply("clear", 204, "", <<>>, <<>>, <<>>))
               /\ store' = store
    /\ UNCHANGED created

ClearBoxDone(s) ==
    /\ inflight[s].op = "clear"
    /\ inflight[s].pc = "del"
    /\ Finish(s, Reply("clear", 204, "", <<>>, <<>>, <<>>))
    /\ UNCHANGED <<store, created>>

(***************************** upstream catalog *****************************)
\* pokemonData.moves.slice(0, 10)
MoveCap == 10

typeColors ==
    [normal |-> "#A8A878", fire |-> "#F08030", water |-> "#6890F0",
     electric |-> "#F8D030", grass |-> "#78C850", ice |-> "#98D8D8",
     fighting |-> "#C03028", poison |-> "#A040A0", ground |-> "#E0C068",
     flying |-> "#A890F0", psychic |-> "#F85888", bug |-> "#A8B820",
     rock |-> "#B8A038", ghost |-> "#705898", dragon |-> "#7038F8",
     dark |-> "#705848", steel |-> "#B8B8D0", fairy |-> "#EE99AC"]

\* typeColors[name] || '#68A090'
TypeColor(name) == IF name \in DOMAIN typeColors THEN typeColors[name] ELSE "#68A090"

ToUpperCase(s) ==
    CASE s = "electric" -> "ELECTRIC" [] s = "normal" -> "NORMAL"
      [] s = "grass" -> "GRASS" [] s = "poison" -> "POISON"
      [] s = "psychic" -> "PSYCHIC" [] s = "shadow" -> "SHADOW"
      [] OTHER -> s
ToLowerCase(s) ==
    CASE s = "Pikachu" -> "pikachu" [] s = "MEW" -> "mew" [] OTHER -> s

PokemonType(name) == [name |-> ToUpperCase(name), color |-> TypeColor(name)]

\* names.find(n => n.language.name === 'en')
EnglishOf(names) == { i \in 1..Len(names) : names[i].language = "en" }
EnglishName(names, fallback) ==
    IF EnglishOf(names) = {} THEN fallback
    ELSE names[CHOOSE i \in EnglishOf(names) : \A j \in EnglishOf(names) : i <= j].name

\* The upstream API's records.  The i-th move of a move list is named by i
\* letters; its record is a function of i: an English name for odd i, a type
\* in turn, a power that is 0 for every third move.
MoveRef(i) == [j \in 1..i |-> "z"]
MoveData(ref) ==
    [name |-> ref,
     names |-> IF Len(ref) % 2 = 1
               THEN << [language |-> "ja", name |-> [j \in 1..Len(ref) |-> "j"]],
                       [language |-> "en", name |-> [j \in 1..Len(ref) |-> "Z"]] >>
               ELSE << [language |-> "ja", name |-> [j \in 1..Len(ref) |-> "j"]] >>,
     power |-> (Len(ref) % 3) * 40,
     type |-> <<"electric", "normal", "shadow">>[(Len(ref) % 3) + 1]]

\* getPokemonsList: the upstream order of the names
Dex == <<"bulbasaur", "mew", "pikachu">>
DexId(name) ==
    CASE name = "bulbasaur" -> 1 [] name = "mew" -> 151 [] name = "pikachu" -> 25
      [] OTHER -> 0
DexTypes(name) ==
    CASE name = "bulbasaur" -> <<"grass", "poison">> [] name = "mew" -> <<"psychic">>
      [] name = "pikachu" -> <<"electric">> [] OTHER -> <<"shadow">>
DexNames(name) ==
    CASE name = "bulbasaur" -> << [language |-> "en", name |-> "Bulbasaur"] >>
      [] name = "pikachu" -> << [language |-> "ja", name |-> "Pikachuu"],
                                [language |-> "en", name |-> "Pikachu"] >>
      [] OTHER -> << [language |-> "ja", name |-> "Myuu"] >>

\* getPokemonByName(name) answering with n moves
PokemonData(name, n) ==
    [id |-> DexId(name), name |-> name, types |-> DexTypes(name),
     moves |-> [i \in 1..n |-> MoveRef(i)]]
\* getPokemonSpeciesByName(name)
SpeciesData(name) == [names |-> DexNames(name)]

\* what an upstream call throws: an HTTP error response, or no response
UpstreamErrors ==
    { [response |-> TRUE, status |-> 404], [response |-> TRUE, status |-> 500],
      [response |-> FALSE, status |-> 0] }
NoError == [response |-> FALSE, status |-> 0]

(***************************** getPokemonDetails ****************************)
Pending == [st |-> "pending"]
Null == [st |-> "null"]
Fetched(move) == [st |-> "move", move |-> move]

NewCall(name) ==
    [name |-> name, pc |-> "base", data |-> PokemonData(name, 0),
     displayName |-> "", fetched |-> <<>>, results |-> <<>>,
     error |-> NoError, rank |-> 0, pokemon |-> <<>>]

\* mutant: no slice, every move is fetched
FirstMovesAll(moves) == moves
\* pokemonData.moves.slice(0, 10)
FirstMoves(moves) ==
    SubSeq(moves, 1, IF Len(moves) < MoveCap THEN Len(moves) ELSE MoveCap)

\* the PokemonMove built from a move record
PokemonMove(moveData) ==
    IF moveData.power > 0
    THEN [name |-> EnglishName(moveData.names, moveData.name),
          type |-> PokemonType(moveData.type), power |-> moveData.power]
    ELSE [name |-> EnglishName(moveData.names, moveData.name),
          type |-> PokemonType(moveData.type)]

RECURSIVE NonNull(_)
\* (await Promise.all(movePromises)).filter(m => m !== null)
NonNull(results) ==
    IF Len(results) = 0 THEN <<>>
    ELSE (IF Head(results).st = "move" THEN <<Head(results).move>> ELSE <<>>)
         \o NonNull(Tail(results))

Settled(results) == \A i \in 1..Len(results) : results[i] # Pending
Finished(cs) == { c \in 1..Len(cs) : cs[c].pc \in {"resolved", "rejected"} }

\* mutant: the call returns without waiting for the move promises
ReturnWithoutWait(cs, c) ==
    [cs EXCEPT ![c].pc = "resolved",
               ![c].rank = Cardinality(Finished(cs)) + 1,
               ![c].pokemon =
                   [id |-> cs[c].data.id, name |-> cs[c].displayName,
                    types |-> [i \in 1..Len(cs[c].data.types) |->
                                   PokemonType(cs[c].data.types[i])],
                    moves |-> NonNull(cs[c].results)]]
\* the call returns its Pokemon once every move promise has settled
Return(cs, c) ==
    IF Settled(cs[c].results)
    THEN [cs EXCEPT ![c].pc = "resolved",
                    ![c].rank = Cardinality(Finished(cs)) + 1,
                    ![c].pokemon =
                        [id |-> cs[c].data.id, name |-> cs[c].displayName,
                         types |-> [i \in 1..Len(cs[c].data.types) |->
                                        PokemonType(cs[c].data.types[i])],
                         moves |-> NonNull(cs[c].results)]]
    ELSE cs
Throw(cs, c, e) ==
    [cs EXCEPT ![c].pc = "rejected", ![c].error = e,
               ![c].rank = Cardinality(Finished(cs)) + 1]

(***************************** /pokemon routes ******************************)
CatalogReply(of, status, code, body) ==
    [op |-> "reply", of |-> of, status |-> status, code |-> code, body |-> body]

\* mutant: every failure is answered 500
PokemonErrorAlways500(e) ==
    CatalogReply("pokemon", 500, "INTERNAL_SERVER_ERROR", <<>>)
\* the catch of GET /pokemon/:name
PokemonError(e) ==
    IF e.response /\ e.status = 404
    THEN CatalogReply("pokemon", 404, "NOT_FOUND", <<>>)
    ELSE CatalogReply("pokemon", 500, "INTERNAL_SERVER_ERROR", <<>>)

\* mutant: the results in the order in which the calls completed
PokemonListByCompletion(cs) ==
    [i \in 1..Len(cs) |-> cs[CHOOSE c \in 1..Len(cs) : cs[c].rank = i].pokemon]
\* await Promise.all(pokemonPromises)
PokemonList(cs) == [i \in 1..Len(cs) |-> cs[i].pokemon]

\* what the waiting route does once a step has left the calls as cs
Answer(rt, cs) ==
    IF rt.op = "pokemon"
    THEN IF cs[1].pc = "resolved"
         THEN [route |-> Idle, resp |-> CatalogReply("pokemon", 200, "", cs[1].pokemon)]
         ELSE IF cs[1].pc = "rejected"
         THEN [route |-> Idle, resp |-> PokemonError(cs[1].error)]
         ELSE [route |-> rt, resp |-> NoResp]
    ELSE IF rt.op = "pokemons" /\ rt.pc = "details"
    THEN IF \E c \in 1..Len(cs) : cs[c].pc = "rejected"
         THEN [route |-> Idle,
               resp |-> CatalogReply("pokemons", 500, "INTERNAL_SERVER_ERROR", <<>>)]
         ELSE IF \A c \in 1..Len(cs) : cs[c].pc = "resolved"
         THEN [route |-> Idle, resp |-> CatalogReply("pokemons", 200, "", PokemonList(cs))]
         ELSE [route |-> rt, resp |-> NoResp]
    ELSE [route |-> rt, resp |-> NoResp]

CallStep(cs) ==
    /\ calls' = cs
    /\ route' = Answer(route, cs).route
    /\ resp' = Answer(route, cs).resp
    /\ UNCHANGED <<store, created, inflight>>

\* no /pokemon request is being handled and no call of an answered one runs
Quiet == route.op = "idle" /\ Finished(calls) = 1..Len(calls)

\* GET /pokemon/:name
GetPokemon(name) ==
    /\ Quiet
    /\ route' = [op |-> "pokemon"]
    /\ calls' = << NewCall(ToLowerCase(name)) >>
    /\ resp' = NoResp
    /\ UNCHANGED <<store, created, inflight>>

\* getPokemonByName answers with a record of n moves
PokemonByNameOk(c, n) ==
    /\ calls[c].pc = "base"
    /\ CallStep([calls EXCEPT ![c].pc = "species",
                              ![c].data = PokemonData(calls[c].name, n)])

PokemonByNameFails(c, e) ==
    /\ calls[c].pc = "base"
    /\ CallStep(Throw(calls, c, e))

\* getPokemonSpeciesByName answers: the names and types are built and the first
\* moves are requested
SpeciesByNameOk(c) ==
    /\ calls[c].pc = "species"
    /\ LET r == calls[c]
           fetched == FirstMoves(r.data.moves)
       IN CallStep(Return(
            [calls EXCEPT ![c].pc = "moves",
                          ![c].displayName =
                              EnglishName(SpeciesData(r.name).names, r.data.name),
                          ![c].fetched = fetched,
                          ![c].results = [i \in 1..Len(fetched) |-> Pending]], c))

SpeciesByNameFails(c, e) ==
    /\ calls[c].pc = "species"
    /\ CallStep(Throw(calls, c, e))

\* getMoveByName of the i-th requested move answers
MoveByNameOk(c, i) ==
    /\ calls[c].pc = "moves"
    /\ calls[c].results[i] = Pending
    /\ CallStep(Return(
         [calls EXCEPT ![c].results[i] =
              Fetched(PokemonMove(MoveData(calls[c].fetched[i])))], c))

\* getMoveByName of the i-th requested move throws: the promise yields null
MoveByNameFails(c, i) ==
    /\ calls[c].pc = "moves"
    /\ calls[c].results[i] = Pending
    /\ CallStep(Return([calls EXCEPT ![c].results[i] = Null], c))

(***************************** GET /pokemon/ ********************************)
\* a query parameter: the decimal text of an integer, other text, or absent
Digits(n) == [t |-> "digits", v |-> n]
Text == [t |-> "text", v |-> 0]
\* parseInt(q): NaN unless the text is an integer
ParseInt(q) == IF q.t = "digits" THEN [nan |-> FALSE, v |-> q.v] ELSE [nan |-> TRUE, v |-> 0]

LimitQueries == { Digits(n) : n \in 0..MaxLimit } \cup { Text }
OffsetQueries == { Digits(n) : n \in (0 - 1)..1 } \cup { Text }

\* the upstream page: limit names from offset on
Page(limit, offset) ==
    SubSeq(Dex, offset + 1,
           IF offset + limit < Len(Dex) THEN offset + limit ELSE Len(Dex))

GetPokemons(limitQ, offsetQ) ==
    LET limit == ParseInt(limitQ)
        offset == ParseInt(offsetQ)
    IN /\ Quiet
       /\ IF limit.nan \/ offset.nan \/ limit.v <= 0 \/ offset.v < 0
          THEN /\ resp' = CatalogReply("pokemons", 400, "BAD_REQUEST", <<>>)
               /\ UNCHANGED <<route, calls>>
          ELSE /\ route' = [op |-> "pokemons", pc |-> "list",
                            limit |-> limit.v, offset |-> offset.v]
               /\ calls' = <<>>
               /\ resp' = NoResp
       /\ UNCHANGED <<store, created, inflight>>

\* getPokemonsList answers: getPokemonDetails is called for every name
PokemonsListOk ==
    /\ route.op = "pokemons"
    /\ route.pc = "list"
    /\ LET page == Page(route.limit, route.offset)
           cs == [i \in 1..Len(page) |-> NewCall(page[i])]
           rt == [route EXCEPT !.pc = "details"]
       IN /\ calls' = cs
          /\ route' = Answer(rt, cs).route
          /\ resp' = Answer(rt, cs).resp
    /\ UNCHANGED <<store, created, inflight>>

PokemonsListFails ==
    /\ route.op = "pokemons"
    /\ route.pc = "list"
    /\ route' = Idle
    /\ resp' = CatalogReply("pokemons", 500, "INTERNAL_SERVER_ERROR", <<>>)
    /\ UNCHANGED <<calls, store, created, inflight>>


(***************************** specification ********************************)
vars == <<store, created, inflight, resp, route, calls>>

\* one request at a time: a request is taken only when none is being handled
Next ==
    \/ \E p \in PennKeys : ListBox(1, p)
    \/ \E s \in Slots : ListBoxDone(s)
    \/ \E p \in Creators, b \in InsertBodies : CreateBox(1, p, b)
    \/ \E s \in Slots : CreateBoxDone(s)
    \/ \E t \in Targets : GetBox(1, t[1], t[2])
    \/ \E s \in Slots : GetBoxDone(s)
    \/ \E t \in Targets, b \in UpdateBodies : UpdateBox(1, t[1], t[2], b)
    \/ \E s \in Slots : UpdateBoxSet(s)
    \/ \E s \in Slots : UpdateBoxDone(s)
    \/ \E t \in Targets : DeleteBox(1, t[1], t[2])
    \/ \E s \in Slots : DeleteBoxDel(s)
    \/ \E s \in Slots : DeleteBoxDone(s)
    \/ \E p \in PennKeys : ClearBox(1, p)
    \/ \E s \in Slots : ClearBoxDel(s)
    \/ \E s \in Slots : ClearBoxDone(s)

Spec == Init /\ [][Next]_vars

\* GET /pokemon/:name, one request at a time
PokemonNames == { "Pikachu" }
NextPokemon ==
    \/ \E name \in PokemonNames : GetPokemon(name)
    \/ \E c \in 1..Len(calls), n \in 0..MaxMoves : PokemonByNameOk(c, n)
    \/ \E c \in 1..Len(calls), e \in UpstreamErrors : PokemonByNameFails(c, e)
    \/ \E c \in 1..Len(calls) : SpeciesByNameOk(c)
    \/ \E c \in 1..Len(calls), e \in UpstreamErrors : SpeciesByNameFails(c, e)
    \/ \E c \in 1..Len(calls) : \E i \in 1..Len(calls[c].results) : MoveByNameOk(c, i)
    \/ \E c \in 1..Len(calls) : \E i \in 1..Len(calls[c].results) : MoveByNameFails(c, i)

SpecPokemon == Init /\ [][NextPokemon]_vars

\* GET /pokemon/, one request at a time
NextPokemons ==
    \/ \E l \in LimitQueries, o \in OffsetQueries : GetPokemons(l, o)
    \/ PokemonsListOk
    \/ PokemonsListFails
    \/ \E c \in 1..Len(calls), n \in 0..MaxListMoves : PokemonByNameOk(c, n)
    \/ \E c \in 1..Len(calls), e \in UpstreamErrors : PokemonByNameFails(c, e)
    \/ \E c \in 1..Len(calls) : SpeciesByNameOk(c)
    \/ \E c \in 1..Len(calls), e \in UpstreamErrors : SpeciesByNameFails(c, e)
    \/ \E c \in 1..Len(calls) : \E i \in 1..Len(calls[c].results) : MoveByNameOk(c, i)
    \/ \E c \in 1..Len(calls) : \E i \in 1..Len(calls[c].results) : MoveByNameFails(c, i)

SpecPokemons == Init /\ [][NextPokemons]_vars

\* the routes with the upstream API out of reach: every request is answered
\* by the server alone
NextErrors ==
    \/ \E op \in BoxOps, h \in Headers : Unauthorized(op, h)
    \/ \E h \in Headers, b \in InsertBodies :
          authenticate(h).next /\ CreateBox(1, authenticate(h).pennkey, b)
    \/ \E s \in Slots : CreateBoxDone(s)
    \/ \E h \in Headers, id \in IdPool :
          authenticate(h).next /\ GetBox(1, authenticate(h).pennkey, id)
    \/ \E s \in Slots : GetBoxDone(s)
    \/ \E l \in LimitQueries, o \in OffsetQueries : GetPokemons(l, o)
    \/ PokemonsListFails

SpecErrors == Init /\ [][NextErrors]_vars

\* the writing /box routes of one pennkey, two requests at a time
Writers == { <<"a">> }
WriterInserts == { InsertBody(Num(1)), InsertBody(Num(101)) }
WriterUpdates == { <<>>, Field("notes", Str(<<"k">>)), Field("level", Num(101)) }
NextConcurrent ==
    \/ \E p \in Writers, b \in WriterInserts : CreateBox(2, p, b)
    \/ \E s \in Slots : CreateBoxDone(s)
    \/ \E p \in Writers, id \in IdPool, b \in WriterUpdates : UpdateBox(2, p, id, b)
    \/ \E s \in Slots : UpdateBoxSet(s)
    \/ \E s \in Slots : UpdateBoxDone(s)
    \/ \E p \in Writers, id \in IdPool : DeleteBox(2, p, id)
    \/ \E s \in Slots : DeleteBoxDel(s)
    \/ \E s \in Slots : DeleteBoxDone(s)
    \/ \E p \in Writers : ClearBox(2, p)
    \/ \E s \in Slots : ClearBoxDel(s)
    \/ \E s \in Slots : ClearBoxDone(s)

SpecConcurrent == Init /\ [][NextConcurrent]_vars

\* an upstream request of a getPokemonDetails call settles; the move list has
\* up to MaxFairMoves entries
Settle ==
    \/ \E c \in 1..Len(calls), n \in 0..MaxFairMoves : PokemonByNameOk(c, n)
    \/ \E c \in 1..Len(calls), e \in UpstreamErrors : PokemonByNameFails(c, e)
    \/ \E c \in 1..Len(calls) : SpeciesByNameOk(c)
    \/ \E c \in 1..Len(calls), e \in UpstreamErrors : SpeciesByNameFails(c, e)
    \/ \E c \in 1..Len(calls) : \E i \in 1..Len(calls[c].results) : MoveByNameOk(c, i)
    \/ \E c \in 1..Len(calls) : \E i \in 1..Len(calls[c].results) : MoveByNameFails(c, i)

NextPokemonFair ==
    \/ \E name \in PokemonNames : GetPokemon(name)
    \/ Settle

\* GET /pokemon/:name with an upstream whose every request settles in the end
SpecPokemonFair == Init /\ [][NextPokemonFair]_vars /\ WF_vars(Settle)

(***************************** properties ***********************************)
\* slot s sends its response in this step
Replying(s) == inflight[s].op # "idle" /\ inflight'[s].op = "idle"
\* the request in slot s takes this step
Acting(s) == inflight[s].op # "idle" /\ inflight'[s] # inflight[s]
\* the key under which the n-th entry was created
OwnKey(n) == BoxKey(created[n], NewId(n))
EntryFields == {"createdAt", "level", "location", "notes", "pokemonId"}
SameFields(a, b) ==
    \A f \in EntryFields : /\ Has(a, f) <=> Has(b, f)
                           /\ Has(a, f) => Get(a, f) = Get(b, f)
WhatGetReturns(st, pennkey, id) == GetOutcome(RedisGet(st, BoxKey(pennkey, id)))
WhatListReturns(st, pennkey) ==
    { ListIds(ks) : ks \in Orders(RedisKeys(st, BoxPattern(pennkey))) }

\* C1: read isolation. list(i2) returns no id of an entry created under another
\* pennkey, and get(i2, id) returns no entry created under another pennkey.
C1_ReadIsolation ==
    [][\A s \in Slots : Replying(s) =>
        LET r == inflight[s]
        IN /\ r.op = "list" =>
                \A i \in 1..Len(resp'.ids) : \A n \in 1..Len(created) :
                    created[n] # r.pennkey => resp'.ids[i] # NewId(n)
           /\ (r.op = "get" /\ resp'.status = 200) =>
                \A n \in 1..Len(created) :
                    Get(resp'.entry, "id") = Str(NewId(n)) => created[n] = r.pennkey
      ]_vars

\* C2: write isolation. No step of an update, delete or clearAll request of one
\* pennkey changes or removes a stored entry created under another pennkey.
C2_WriteIsolation ==
    [][\A s \in Slots :
        (Acting(s) /\ inflight[s].op \in {"update", "delete", "clear"}) =>
            \A n \in 1..Len(created) :
                (created[n] # inflight[s].pennkey /\ OwnKey(n) \in DOMAIN store) =>
                    /\ OwnKey(n) \in DOMAIN store'
                    /\ store'[OwnKey(n)] = store[OwnKey(n)]
      ]_vars

\* C3: create/get round trip. A create of a valid payload answers 201 with a
\* non-empty id, and a get of that id by the same pennkey then returns the
\* payload's createdAt, level, location, notes (absent when absent) and
\* pokemonId under that id.
C3_CreateGetRoundTrip ==
    [][\A s \in Slots : (Replying(s) /\ inflight[s].op = "create") =>
        LET r == inflight[s]
            id == Get(resp'.entry, "id")
            got == WhatGetReturns(store', r.pennkey, id.v)
        IN /\ resp'.status = 201
           /\ IsString(id) /\ Len(id.v) > 0
           /\ SameFields(r.body, resp'.entry)
           /\ got.status = 200
           /\ SameFields(r.body, got.entry)
           /\ Get(got.entry, "id") = id
      ]_vars

C3_Witness ==
    /\ resp.op = "reply" /\ resp.of = "create" /\ resp.status = 201
    /\ ~Has(resp.entry, "notes")
    /\ \E n \in 1..Len(created) : OwnKey(n) \in DOMAIN store

\* a payload that breaks a rule of the update schema
ViolatesUpdateSchema(body) ==
    \/ Has(body, "level") /\ ~(Get(body, "level").t = "number"
                               /\ Get(body, "level").v \in 1..100)
    \/ Has(body, "location") /\ ~(Get(body, "location").t = "string"
                                  /\ Get(body, "location").v # <<>>)
    \/ Has(body, "pokemonId") /\ ~(Get(body, "pokemonId").t = "number"
                                   /\ Get(body, "pokemonId").v >= 1)

\* C4: an update of an existing entry with a payload that violates the update
\* schema is answered 400 with the field errors, issues no write, and a get
\* afterwards returns the record as it was read before the update.
C4_FailedUpdateUnchanged ==
    [][\A s \in Slots :
        (Acting(s) /\ inflight[s].op = "update" /\ inflight[s].pc = "get"
           /\ inflight[s].data.found /\ ViolatesUpdateSchema(inflight[s].body)) =>
            LET r == inflight[s]
            IN /\ inflight'[s] = Idle
               /\ resp'.status = 400 /\ resp'.code = "BAD_REQUEST"
               /\ Len(resp'.errors) > 0
               /\ r.cmds = <<"GET">>
               /\ store' = store
               /\ WhatGetReturns(store', r.pennkey, r.id) = GetOutcome(r.data)
      ]_vars

C4_Witness ==
    /\ resp.op = "reply" /\ resp.of = "update" /\ resp.status = 400
    /\ resp.errors = <<"level">>
    /\ \E n \in 1..Len(created) : OwnKey(n) \in DOMAIN store

\* C5: an update of an existing entry with an empty payload succeeds, returns
\* the record as it was, and leaves the stored text as it was.
C5_EmptyUpdateNoOp ==
    [][\A s \in Slots :
        (Acting(s) /\ inflight[s].op = "update" /\ inflight[s].body = <<>>
           /\ inflight[s].data.found) =>
            LET r == inflight[s]
            IN /\ store' = store
               /\ r.pc = "get" => /\ inflight'[s].op = "update"
                                  /\ inflight'[s].pc = "set"
               /\ r.pc = "set" => /\ resp'.status = 200
                                  /\ resp'.entry = JSONparse(r.data.text)
                                  /\ WhatGetReturns(store', r.pennkey, r.id).entry
                                        = resp'.entry
      ]_vars

C5_Witness ==
    \E s \in Slots : /\ inflight[s].op = "update"
                     /\ inflight[s].body = <<>>
                     /\ inflight[s].pc = "set"
                     /\ Has(inflight[s].entry, "notes")

\* C6: after a delete answered 204 a get of the same id is answered 404; a
\* delete of an absent key is answered 404, issues no del and changes nothing.
C6_DeleteThenGet ==
    [][\A s \in Slots : (Acting(s) /\ inflight[s].op = "delete") =>
        LET r == inflight[s]
        IN /\ (Replying(s) /\ resp'.status = 204) =>
                /\ r.data.found
                /\ WhatGetReturns(store', r.pennkey, r.id).status = 404
           /\ ~r.data.found =>
                /\ Replying(s)
                /\ resp'.status = 404 /\ resp'.code = "NOT_FOUND"
                /\ r.cmds = <<"EXISTS">>
                /\ store' = store
      ]_vars

C6_Witness ==
    /\ resp.op = "reply" /\ resp.of = "delete" /\ resp.status = 204
    /\ Len(created) > 0

\* C7: clearAll is answered 204 and list of the same pennkey is then empty;
\* with no matching key it issues no del and changes nothing.
C7_ClearAllEmpties ==
    [][\A s \in Slots : (Replying(s) /\ inflight[s].op = "clear") =>
        LET r == inflight[s]
        IN /\ resp'.status = 204
           /\ WhatListReturns(store', r.pennkey) = { <<>> }
           /\ Len(r.keys) = 0 => (r.cmds = <<"KEYS">> /\ store' = store)
      ]_vars

C7_Witness ==
    \E s \in Slots : /\ inflight[s].op = "clear"
                     /\ inflight[s].pc = "del"
                     /\ Len(inflight[s].keys) >= 2

\* C8: move aggregation. getPokemonDetails requests exactly the first
\* min(10, n) moves of the upstream list, returns the moves whose request
\* succeeded, in upstream order, and no failed move request makes it throw.
C8_MoveAggregation ==
    \A c \in 1..Len(calls) :
        LET r == calls[c]
            n == Len(r.data.moves)
            k == IF n < 10 THEN n ELSE 10
            ok == { i \in 1..Len(r.results) : r.results[i].st = "move" }
            nth(j) == CHOOSE i \in ok : Cardinality({ h \in ok : h < i }) = j - 1
        IN /\ r.pc \in {"moves", "resolved"} =>
                /\ Len(r.fetched) = k /\ Len(r.results) = k
                /\ \A i \in 1..k : r.fetched[i] = r.data.moves[i]
           /\ r.pc = "resolved" =>
                /\ Len(r.pokemon.moves) = Cardinality(ok)
                /\ Len(r.pokemon.moves) <= 10
                /\ \A j \in 1..Len(r.pokemon.moves) :
                      /\ r.pokemon.moves[j] = r.results[nth(j)].move
                      /\ r.pokemon.moves[j].name
                            = EnglishName(MoveData(r.data.moves[nth(j)]).names,
                                          r.data.moves[nth(j)])
                /\ route.op = "idle" /\ resp.op = "reply"
                /\ resp.status = 200 /\ resp.body = r.pokemon
           /\ r.pc = "rejected" => r.results = <<>>

C8_Witness ==
    /\ Len(calls) = 1
    /\ calls[1].pc = "resolved"
    /\ Len(calls[1].data.moves) = 12
    /\ calls[1].results[2] = Null /\ calls[1].results[10] = Null
    /\ Len(calls[1].pokemon.moves) = 8
    /\ resp.op = "reply" /\ resp.status = 200

\* C9: failure classification of GET /pokemon/:name. When the base or the
\* species request throws, a 404 response of the upstream is answered 404
\* NOT_FOUND, anything else 500 INTERNAL_SERVER_ERROR, and no Pokemon is sent.
C9_FailureClassification ==
    \A c \in 1..Len(calls) :
        calls[c].pc = "rejected" =>
            /\ route.op = "idle" /\ resp.op = "reply" /\ resp.of = "pokemon"
            /\ resp.body = <<>>
            /\ IF calls[c].error.response /\ calls[c].error.status = 404
               THEN resp.status = 404 /\ resp.code = "NOT_FOUND"
               ELSE resp.status = 500 /\ resp.code = "INTERNAL_SERVER_ERROR"

C9_Witness ==
    /\ Len(calls) = 1
    /\ calls[1].pc = "rejected"
    /\ Len(calls[1].data.moves) > 0
    /\ calls[1].error = [response |-> TRUE, status |-> 404]
    /\ resp.op = "reply" /\ resp.status = 404

\* C10: GET /pokemon/ is all or nothing. getPokemonDetails is called once per
\* name of the page, in page order; the step in which a call throws answers
\* 500 without a list; the step in which the last call returns answers 200
\* with one Pokemon per name in page order; no other step answers.
C10_BulkAllOrNothing ==
    [][route.op = "pokemons" =>
        LET page == Page(route.limit, route.offset)
        IN /\ (route.pc = "list" /\ route'.op = "pokemons") =>
                /\ Len(calls') = Len(page)
                /\ \A i \in 1..Len(page) : calls'[i].name = page[i]
                /\ resp' = NoResp
           /\ route.pc = "details" =>
                IF \E c \in 1..Len(calls') : calls'[c].pc = "rejected"
                THEN /\ resp'.op = "reply" /\ resp'.status = 500
                     /\ resp'.code = "INTERNAL_SERVER_ERROR"
                     /\ resp'.body = <<>>
                     /\ route' = Idle
                ELSE IF \A c \in 1..Len(calls') : calls'[c].pc = "resolved"
                THEN /\ resp'.op = "reply" /\ resp'.status = 200
                     /\ Len(resp'.body) = Len(page)
                     /\ \A i \in 1..Len(page) : resp'.body[i].id = DexId(page[i])
                     /\ route' = Idle
                ELSE resp' = NoResp /\ route' = route
      ]_vars

C10_Witness ==
    /\ resp.op = "reply" /\ resp.of = "pokemons" /\ resp.status = 200
    /\ Len(calls) = 2
    /\ calls[1].rank > calls[2].rank
    /\ resp.body[1].id = DexId(calls[1].name)

\* the reply of a create or update whose body zod turned down
IsValidationError(r) ==
    r.op = "reply" /\ r.of \in {"create", "update"} /\ r.errors # <<>>

\* C11: the error kinds are told apart by status and code. A reply to a create
\* or update whose payload fails validation carries the field errors, and its
\* status and code are not both those of the reply that GET /pokemon/ gives to
\* malformed limit or offset.
C11_ErrorTaxonomyDistinct ==
    [][(/\ IsValidationError(resp)
        /\ route.op = "idle" /\ route'.op = "idle"
        /\ resp'.op = "reply" /\ resp'.of = "pokemons")
          => <<resp.status, resp.code>> # <<resp'.status, resp'.code>>
      ]_vars

\* the names of the properties of an object
Names(o) == { o[i][1] : i \in 1..Len(o) }
\* a payload with exactly the insert schema's fields, each with a valid value
ConformsToInsert(body) ==
    /\ Names(body) \subseteq EntryFields
    /\ {"createdAt", "level", "location", "pokemonId"} \subseteq Names(body)
    /\ Get(body, "createdAt").t = "string"
    /\ Get(body, "createdAt").v \in DatetimeStrings
    /\ Get(body, "level").t = "number" /\ Get(body, "level").v \in 1..100
    /\ Get(body, "location").t = "string" /\ Get(body, "location").v # <<>>
    /\ Get(body, "pokemonId").t = "number" /\ Get(body, "pokemonId").v >= 1
    /\ Has(body, "notes") => Get(body, "notes").t = "string"

\* C12: strict insert validation. A create is taken to the store only for a
\* payload with exactly the insert schema's fields and valid values, and a
\* create answered 400 carries field errors and writes nothing.
C12_StrictInsertValidation ==
    [][\A s \in Slots :
        /\ (inflight[s].op = "idle" /\ inflight'[s].op = "create") =>
               ConformsToInsert(inflight'[s].body)
        /\ (resp'.op = "reply" /\ resp'.of = "create" /\ resp'.status = 400) =>
               resp'.errors # <<>> /\ store' = store
      ]_vars

\* C13: id immutability. Every stored record is stored under the key of the
\* pennkey and id of its creation and carries that id, whatever updates it has
\* gone through, those with an id in the payload included.
C13_IdImmutable ==
    \A k \in DOMAIN store :
        \E n \in 1..Len(created) :
            /\ k = OwnKey(n)
            /\ Get(JSONparse(store[k]), "id") = Str(NewId(n))

C13_Witness ==
    \E s \in Slots :
        /\ inflight[s].op = "update" /\ inflight[s].pc = "set"
        /\ Has(inflight[s].body, "id")
        /\ Get(inflight[s].body, "id") # Get(inflight[s].entry, "id")
        /\ BoxKey(inflight[s].pennkey, inflight[s].id) \in DOMAIN store

\* C14: list is exact. With one request at a time, list(pennkey) returns each
\* id of the entries created under that pennkey and still stored, once, and
\* nothing else; get(pennkey, id) finds every id it returns.
C14_ListExact ==
    [][\A s \in Slots : (Replying(s) /\ inflight[s].op = "list") =>
        LET r == inflight[s]
            mine == { NewId(n) : n \in { h \in 1..Len(created) :
                          created[h] = r.pennkey /\ OwnKey(h) \in DOMAIN store } }
        IN /\ Range(resp'.ids) = mine
           /\ Len(resp'.ids) = Cardinality(mine)
           /\ \A i \in 1..Len(resp'.ids) :
                 WhatGetReturns(store', r.pennkey, resp'.ids[i]).status = 200
      ]_vars

\* a record that satisfies the full entry schema
ValidEntry(e) ==
    /\ {"id", "createdAt", "level", "location", "pokemonId"} \subseteq Names(e)
    /\ Get(e, "id").t = "string"
    /\ Get(e, "createdAt").t = "string" /\ Get(e, "createdAt").v \in DatetimeStrings
    /\ Get(e, "level").t = "number" /\ Get(e, "level").v \in 1..100
    /\ Get(e, "location").t = "string" /\ Get(e, "location").v # <<>>
    /\ Get(e, "pokemonId").t = "number" /\ Get(e, "pokemonId").v >= 1
    /\ Has(e, "notes") => Get(e, "notes").t = "string"

\* C15: stored-record validity. In every state of every interleaving of
\* create, update, delete and clearAll requests, every text stored under a
\* box key is the JSON of a record that satisfies the full entry schema.
C15_StoredRecordsValid ==
    \A k \in DOMAIN store :
        /\ ValidEntry(JSONparse(store[k]))
        /\ JSONstringify(JSONparse(store[k])) = store[k]

C15_Witness ==
    /\ Cardinality(Busy) = 2
    /\ \E s \in Slots : inflight[s].op = "update" /\ inflight[s].pc = "set"
    /\ \E s \in Slots : inflight[s].op = "create"
    /\ \E k \in DOMAIN store : Has(JSONparse(store[k]), "notes")

\* C16: update merge semantics. An update of a stored entry with a valid
\* partial payload writes and returns the record whose schema fields named in
\* the payload have the payload's values and whose other fields are as they
\* were read, and a get afterwards returns that record. An update of an absent
\* key is answered 404 after the read alone, whatever the payload.
C16_UpdateMerge ==
    [][\A s \in Slots : (Acting(s) /\ inflight[s].op = "update") =>
        LET r == inflight[s]
            k == BoxKey(r.pennkey, r.id)
            old == JSONparse(r.data.text)
        IN /\ (r.pc = "get" /\ ~r.data.found) =>
                /\ Replying(s)
                /\ resp'.status = 404 /\ resp'.code = "NOT_FOUND"
                /\ r.cmds = <<"GET">>
                /\ store' = store
           /\ (r.pc = "get" /\ r.data.found /\ ~ViolatesUpdateSchema(r.body)) =>
                /\ inflight'[s].op = "update" /\ inflight'[s].pc = "set"
                /\ k \in DOMAIN store'
                /\ \A x \in DOMAIN store : x # k =>
                      x \in DOMAIN store' /\ store'[x] = store[x]
           /\ r.pc = "set" =>
                /\ resp'.status = 200
                /\ Names(resp'.entry) = Names(old) \cup (Names(r.body) \cap EntryFields)
                /\ \A f \in Names(resp'.entry) :
                      Get(resp'.entry, f) =
                          IF f \in EntryFields /\ Has(r.body, f)
                          THEN Get(r.body, f) ELSE Get(old, f)
                /\ store' = store
                /\ WhatGetReturns(store', r.pennkey, r.id).status = 200
                /\ WhatGetReturns(store', r.pennkey, r.id).entry = resp'.entry
      ]_vars

C16_Witness ==
    /\ resp.op = "reply" /\ resp.of = "update" /\ resp.status = 200
    /\ Has(resp.entry, "notes") /\ Get(resp.entry, "notes") = Str(<<"k">>)
    /\ Get(resp.entry, "level") = Num(100)

\* C17: an update never re-creates a removed entry. In every interleaving, the
\* key an update writes is in the store at the step that writes it.
C17_UpdateNeverRecreates ==
    [][\A s \in Slots :
        (/\ inflight[s].op = "update" /\ inflight[s].pc = "get"
         /\ inflight'[s].op = "update" /\ inflight'[s].pc = "set")
          => BoxKey(inflight[s].pennkey, inflight[s].id) \in DOMAIN store
      ]_vars

\* C18: last write wins. The step in which an update writes stores, whole, the
\* record merged from what that update read, which is the record it returns;
\* its reply changes nothing. So when two updates of one key have both
\* written, the stored record is the one returned by the later writer, one of
\* the two returned records and no mixture of them.
C18_LastWriteWins ==
    [][\A s \in Slots : (Acting(s) /\ inflight[s].op = "update") =>
        LET r == inflight[s]
            k == BoxKey(r.pennkey, r.id)
        IN /\ (r.pc = "get" /\ inflight'[s].op = "update") =>
                /\ k \in DOMAIN store'
                /\ store'[k] = JSONstringify(inflight'[s].entry)
                /\ \A f \in Names(inflight'[s].entry) :
                      Get(inflight'[s].entry, f) =
                          IF f \in EntryFields /\ Has(r.body, f)
                          THEN Get(r.body, f) ELSE Get(JSONparse(r.data.text), f)
                /\ \A t \in Slots \ {s} :
                      (/\ inflight'[t].op = "update" /\ inflight'[t].pc = "set"
                       /\ BoxKey(inflight'[t].pennkey, inflight'[t].id) = k)
                        => store'[k] \in { JSONstringify(inflight'[s].entry),
                                           JSONstringify(inflight'[t].entry) }
           /\ r.pc = "set" =>
                /\ resp'.status = 200 /\ resp'.entry = r.entry
                /\ store' = store
      ]_vars

C18_Witness ==
    \E s \in Slots, t \in Slots :
        /\ s # t
        /\ inflight[s].op = "update" /\ inflight[s].pc = "set"
        /\ inflight[t].op = "update" /\ inflight[t].pc = "set"
        /\ inflight[s].pennkey = inflight[t].pennkey /\ inflight[s].id = inflight[t].id
        /\ Has(inflight[t].entry, "notes") /\ ~Has(inflight[s].entry, "notes")
        /\ BoxKey(inflight[s].pennkey, inflight[s].id) \in DOMAIN store
        /\ store[BoxKey(inflight[s].pennkey, inflight[s].id)]
              = JSONstringify(inflight[s].entry)

\* a header that is exactly Bearer and a token signed with the secret, not expired
ValidHeader(h) ==
    /\ Len(h) = 2
    /\ h[1] = Word("Bearer")
    /\ h[2].t = "jwt" /\ h[2].key = JWT_SECRET /\ ~h[2].expired

\* C19: unauthenticated requests have no effect. authenticate answers 401
\* UNAUTHORIZED to every header that is missing, malformed or holds an invalid
\* or expired token; the step that answers 401 leaves the store and the
\* handlers as they were; no handler runs under the pennkey of such a header.
C19_UnauthorizedNoEffect ==
    [][/\ \A h \in Headers : ~ValidHeader(h) =>
              /\ ~authenticate(h).next
              /\ authenticate(h).status = 401
              /\ authenticate(h).code = "UNAUTHORIZED"
       /\ (resp'.op = "reply" /\ resp'.status = 401) =>
              /\ resp'.code = "UNAUTHORIZED"
              /\ store' = store /\ created' = created /\ inflight' = inflight
       /\ \A s \in Slots : inflight'[s].op # "idle" =>
              \E h \in Headers : ValidHeader(h) /\ h[2].pennkey = inflight'[s].pennkey
      ]_vars

C19_Witness ==
    /\ resp.op = "reply" /\ resp.of = "clear" /\ resp.status = 401
    /\ DOMAIN store # {}
    /\ \E s \in Slots : inflight[s].op = "get"

\* the move requests of a call are out only after the base and the species
\* record arrived, all of them at once, and the call returns only when none
\* is pending
MovesAfterRecords ==
    \A c \in 1..Len(calls) :
        /\ calls[c].pc \in {"base", "species", "rejected"} =>
               calls[c].fetched = <<>> /\ calls[c].results = <<>>
        /\ calls[c].pc = "moves" =>
               /\ Len(calls[c].results) = Len(calls[c].fetched)
               /\ \E i \in 1..Len(calls[c].results) : calls[c].results[i] = Pending
        /\ calls[c].pc = "resolved" =>
               \A i \in 1..Len(calls[c].results) : calls[c].results[i] # Pending
AllMovesStartedTogether ==
    \A c \in 1..Len(calls) :
        (c <= Len(calls') /\ calls[c].pc = "species" /\ calls'[c].pc = "moves") =>
            /\ Len(calls'[c].results) =
                  (IF Len(calls[c].data.moves) < 10 THEN Len(calls[c].data.moves) ELSE 10)
            /\ \A i \in 1..Len(calls'[c].results) : calls'[c].results[i] = Pending
CallRunning == Len(calls) = 1 /\ calls[1].pc \in {"base", "species", "moves"}
CallOver == Len(calls) = 1 /\ calls[1].pc \in {"resolved", "rejected"}

\* C20: joint wait on the move requests. getPokemonDetails requests moves only
\* after the base and the species request succeeded, requests all of the up to
\* 10 moves before any of them settles, returns only when every one of them has
\* settled, and, when every upstream request settles in the end, returns or
\* throws in the end.
C20_JointWait ==
    /\ []MovesAfterRecords
    /\ [][AllMovesStartedTogether]_vars
    /\ (CallRunning ~> CallOver)

C20_Witness ==
    /\ Len(calls) = 1
    /\ calls[1].pc = "moves"
    /\ Len(calls[1].results) >= 3
    /\ Cardinality({ i \in 1..Len(calls[1].results) : calls[1].results[i] = Pending }) = 1
    /\ \E i \in 1..Len(calls[1].results) : calls[1].results[i] = Null
    /\ \E i \in 1..Len(calls[1].results) : calls[1].results[i].st = "move"

====
